---- MODULE Spec2Model ----
\* lepatch: content-addressed, deduplicating backup of a directory tree into an
\* append-only blob file (command/backup.rs), and its restore (command/restore.rs).
\*
\* Conventions of the model
\*   - a relative path is its rank in the name-sorted walk (1..NumPaths);
\*   - a byte is a value of Bytes; the blob file is a sequence of cells, one cell per
\*     encoded integer (a content byte, or one integer of the serialized snapshot);
\*   - indices stored in the snapshot are 0-based as in the code; sequences of the
\*     model are 1-based, so a stored index i addresses element i + 1;
\*   - Option<T> is a sequence of length 0 (None) or 1 (Some).
EXTENDS Integers, Sequences, FiniteSets, TLC

\* ---------------------------------------------------------------- bounds
NumPaths == 2
NumInodes == 2
MaxTotalLen == 3
MinSize == 1
MaxSize == 2
MaxBackups == 2
NumProcs == 2
MaxCalls == 3
MaxPutLen == 2
MaxLongLen == 4

Bytes == {1, 2}
\* the byte a hole of a sparse destination file reads as
HoleByte == 0
\* the only device of the tree (st_dev)
Dev == 1

None == << >>
Some(x) == << x >>
IsSome(o) == Len(o) = 1
Unwrap(o) == o[1]

Min(a, b) == IF a <= b THEN a ELSE b
Max(a, b) == IF a >= b THEN a ELSE b

RECURSIVE SumSeq(_)
SumSeq(s) == IF s = << >> THEN 0 ELSE Head(s) + SumSeq(Tail(s))

RECURSIVE Concat(_)
Concat(ss) == IF ss = << >> THEN << >> ELSE Head(ss) \o Concat(Tail(ss))

SeqsUpTo(S, n) == UNION { [1..k -> S] : k \in 0..n }

\* ------------------------------------------------- blob keys (storage/blob.rs)
\* serde_json renders a u64 as its decimal digits; the key is the JSON text
\* {"offset":<digits>,"length":<digits>}, modelled as the two digit strings.
RECURSIVE ToDigits(_)
ToDigits(n) == IF n < 10 THEN << n >> ELSE Append(ToDigits(n \div 10), n % 10)

RECURSIVE FromDigits(_)
FromDigits(d) ==
    IF Len(d) = 1 THEN d[1]
    ELSE 10 * FromDigits(SubSeq(d, 1, Len(d) - 1)) + d[Len(d)]

KeyEncode(entry) == << ToDigits(entry.offset), ToDigits(entry.length) >>
KeyDecode(key) == [offset |-> FromDigits(key[1]), length |-> FromDigits(key[2])]

\* BlobFileStorage::get: seek to entry.offset, take(entry.length); the reader ends
\* at the end of the file when the file is shorter than the range.
StorageGet(file, key) ==
    LET entry == KeyDecode(key)
    IN  SubSeq(file, entry.offset + 1, Min(Len(file), entry.offset + entry.length))

\* faulty variant of put: the key records offset 0 instead of the file length
PutOffsetZero(file, data) ==
    [file |-> file \o data, key |-> KeyEncode([offset |-> 0, length |-> Len(data)])]

\* BlobFileStorage::put: open in append mode, offset = current file length, copy
\* the whole reader to the end of the file, key = {offset, bytes copied}.
StoragePut(file, data) ==
    [file |-> file \o data,
     key |-> KeyEncode([offset |-> Len(file), length |-> Len(data)])]

\* ------------------------------------------- snapshot codec (metadata.rs, bincode)
\* bincode writes the four vectors in declaration order, each as its length followed
\* by its items; a struct is its fields in order; a string is its length followed by
\* its characters; a bool is 0 or 1.
SerString(d) == << Len(d) >> \o d

SerFile(f) == << f.path >>
SerChunk(c) == << c.hash >> \o SerString(c.location[1]) \o SerString(c.location[2])
SerFileChunk(fc) ==
    << fc.chunk_index, fc.file_index, fc.chunk_offset, fc.file_offset, fc.length >>
SerFileSymlink(l) == << l.path, l.source, IF l.is_hard THEN 1 ELSE 0 >>

SerItem(x, kind) ==
    CASE kind = "file" -> SerFile(x)
      [] kind = "chunk" -> SerChunk(x)
      [] kind = "file_chunk" -> SerFileChunk(x)
      [] OTHER -> SerFileSymlink(x)

SerVec(v, kind) == << Len(v) >> \o Concat([i \in 1..Len(v) |-> SerItem(v[i], kind)])

Serialize(snap) ==
    SerVec(snap.files, "file") \o SerVec(snap.chunks, "chunk")
        \o SerVec(snap.file_chunks, "file_chunk")
        \o SerVec(snap.file_symlink, "symlink")

\* the cell at pos, or -1 past the end of the buffer (an unexpected end of input)
Cell(buf, pos) == IF pos >= 1 /\ pos <= Len(buf) THEN buf[pos] ELSE -1

\* a String whose length prefix is n, starting at pos: its characters
StringAt(buf, pos, n) == SubSeq(buf, pos + 1, pos + n)
StringOk(buf, pos, n) == n >= 1 /\ pos + n <= Len(buf)

DeFile(buf, pos) ==
    [ok |-> Cell(buf, pos) >= 0, val |-> [path |-> Cell(buf, pos)], pos |-> pos + 1]

\* Chunk{hash, location}: the hash, then the two digit strings of the key
DeChunkAt(buf, pos, n1, n2) ==
    [ok |-> /\ Cell(buf, pos) >= 0
            /\ StringOk(buf, pos + 1, n1)
            /\ StringOk(buf, pos + 2 + n1, n2),
     val |-> [hash |-> Cell(buf, pos),
              location |-> << StringAt(buf, pos + 1, n1),
                              StringAt(buf, pos + 2 + Max(n1, 0), n2) >>],
     pos |-> pos + 3 + n1 + n2]
DeChunkOff(buf, pos, n1) == DeChunkAt(buf, pos, n1, Cell(buf, pos + 2 + Max(n1, 0)))
DeChunk(buf, pos) == DeChunkOff(buf, pos, Cell(buf, pos + 1))

DeFileChunk(buf, pos) ==
    [ok |-> \A k \in 0..4 : Cell(buf, pos + k) >= 0,
     val |-> [chunk_index |-> Cell(buf, pos), file_index |-> Cell(buf, pos + 1),
              chunk_offset |-> Cell(buf, pos + 2),
              file_offset |-> Cell(buf, pos + 3), length |-> Cell(buf, pos + 4)],
     pos |-> pos + 5]

DeFileSymlink(buf, pos) ==
    [ok |-> /\ Cell(buf, pos) >= 0 /\ Cell(buf, pos + 1) >= 0
            /\ Cell(buf, pos + 2) \in {0, 1},
     val |-> [path |-> Cell(buf, pos), source |-> Cell(buf, pos + 1),
              is_hard |-> Cell(buf, pos + 2) = 1],
     pos |-> pos + 3]

DeItem(buf, pos, field) ==
    CASE field = 1 -> DeFile(buf, pos)
      [] field = 2 -> DeChunk(buf, pos)
      [] field = 3 -> DeFileChunk(buf, pos)
      [] OTHER -> DeFileSymlink(buf, pos)

PushItem(snap, field, val) ==
    CASE field = 1 -> [snap EXCEPT !.files = Append(@, val)]
      [] field = 2 -> [snap EXCEPT !.chunks = Append(@, val)]
      [] field = 3 -> [snap EXCEPT !.file_chunks = Append(@, val)]
      [] OTHER -> [snap EXCEPT !.file_symlink = Append(@, val)]

\* the decoder, reading field after field: left is the number of items the current
\* vector still holds, or -1 before its length is read
RECURSIVE DeFields(_, _, _, _, _)
DeTake(buf, field, left, snap, item) ==
    IF item.ok THEN DeFields(buf, item.pos, field, left - 1, PushItem(snap, field, item.val))
    ELSE None

DeFields(buf, pos, field, left, snap) ==
    IF field > 4 THEN Some(snap)
    ELSE IF left = 0 THEN DeFields(buf, pos, field + 1, -1, snap)
    ELSE IF left > 0 THEN DeTake(buf, field, left, snap, DeItem(buf, pos, field))
    ELSE IF Cell(buf, pos) < 0 THEN None
    ELSE DeFields(buf, pos + 1, field, Cell(buf, pos), snap)

EmptySnapshot ==
    [files |-> << >>, chunks |-> << >>, file_chunks |-> << >>, file_symlink |-> << >>]

\* bincode::deserialize: Some(snapshot), or None for InvalidData
Deserialize(buf) == DeFields(buf, 1, 1, -1, EmptySnapshot)

\* ------------------------------------------------------- hashing (backup.rs:127)
\* BLAKE3 is taken as collision-free: the digest is an injective encoding of the
\* buffer (its bytes as base-3 digits after a leading 1).
RECURSIVE Blake3(_)
Blake3(buf) ==
    IF buf = << >> THEN 1 ELSE 3 * Blake3(SubSeq(buf, 1, Len(buf) - 1)) + buf[Len(buf)]

\* ------------------------------------------------------------- source tree
\* An entry of the tree, in walk order: a directory, a symbolic link (source is
\* its link text, never followed) or a regular file with an inode number. Hard
\* links are regular files sharing an inode, hence sharing their content.
Paths == 1..NumPaths
Inodes == 1..NumInodes
Contents == SeqsUpTo(Bytes, MaxTotalLen)
\* the link text of every symbolic link of the tree: a name outside the tree
LinkText == 0

DirEntry == [kind |-> "dir", ino |-> 0]
SymlinkEntry == [kind |-> "symlink", ino |-> 0]
FileEntry(i) == [kind |-> "file", ino |-> i]
Entries == {DirEntry, SymlinkEntry} \cup {FileEntry(i) : i \in Inodes}

UsedInodes(t) == {t.entries[p].ino : p \in {q \in Paths : t.entries[q].kind = "file"}}
\* the bytes of content in the tree, each inode counted once
TotalLen(t) == SumSeq([i \in Inodes |-> Len(t.data[i])])
FirstUse(t, i) ==
    CHOOSE p \in Paths : /\ t.entries[p] = FileEntry(i)
                         /\ \A q \in 1..(p - 1) : t.entries[q] # FileEntry(i)

\* inode numbers matter only up to equality: they are numbered in order of first
\* appearance in the walk, and an inode no path refers to has no content; the
\* tree holds at most MaxTotalLen bytes of content
Canonical(t) ==
    /\ \A i \in Inodes : i \notin UsedInodes(t) => t.data[i] = << >>
    /\ \A i \in UsedInodes(t) : \A j \in 1..(i - 1) :
           j \in UsedInodes(t) /\ FirstUse(t, j) < FirstUse(t, i)

TreeData == {d \in [Inodes -> Contents] : SumSeq([i \in Inodes |-> Len(d[i])]) <= MaxTotalLen}
Trees == {t \in [entries : [Paths -> Entries], data : TreeData] : Canonical(t)}

FileSize(t, p) == Len(t.data[t.entries[p].ino])

\* ----------------------------------------------- walk (backup.rs:53-111)
\* FileId::from_metadata, unix build: Some(FileId{dev, ino})
FileIdFromMetadata(t, p) == Some([volume_id |-> Dev, file_index |-> t.entries[p].ino])

MapInsert(map, k, v) == [x \in (DOMAIN map) \cup {k} |-> IF x = k THEN v ELSE map[x]]
EmptyMap == [x \in {} |-> 0]

\* faulty variant: the inode map is never consulted
IsNewFileAlways(map, file_id) == TRUE

\* inode_map.get(&file_id) is None

IsNewFile(map, file_id) == file_id \notin DOMAIN map

\* --------------------------------------------- FileRegistry (reader.rs:44-103)
RECURSIVE RegistryEntries(_, _, _)
RegistryEntries(t, paths, global_offset) ==
    IF paths = << >> THEN << >>
    ELSE LET length == FileSize(t, Head(paths))
         IN  << [path |-> Head(paths), length |-> length,
                 global_offset |-> global_offset] >>
             \o RegistryEntries(t, Tail(paths), global_offset + length)

FileRegistryNew(t, paths) == RegistryEntries(t, paths, 0)

\* faulty variant: the files that start at or before global_start are skipped
PartitionPointByStart(entries, global_start) ==
    Cardinality({i \in 1..Len(entries) :
                   \A j \in 1..i : entries[j].global_offset <= global_start})

\* slice::partition_point: the number of leading entries satisfying the predicate
PartitionPoint(entries, global_start) ==
    LET Pred(e) == (e.global_offset + e.length) <= global_start
    IN  Cardinality({i \in 1..Len(entries) : \A j \in 1..i : Pred(entries[j])})

\* faulty variant: the global offset of the file is not subtracted
FileLocalOffsetGlobal(overlap_start_global, entry) == overlap_start_global

\* overlap_start_global - entry.global_offset
FileLocalOffset(overlap_start_global, entry) == overlap_start_global - entry.global_offset

RECURSIVE ResolveFrom(_, _, _, _)
ResolveFrom(entries, i, global_start, global_end) ==
    IF i > Len(entries) THEN << >>
    ELSE LET entry == entries[i]
         IN  IF entry.global_offset >= global_end THEN << >>
             ELSE LET file_end_global == entry.global_offset + entry.length
                      overlap_start_global == Max(global_start, entry.global_offset)
                      overlap_end_global == Min(global_end, file_end_global)
                      overlap_len == Max(overlap_end_global - overlap_start_global, 0)
                      rest == ResolveFrom(entries, i + 1, global_start, global_end)
                  IN  IF overlap_len > 0
                      THEN << [path |-> entry.path,
                               offset |-> FileLocalOffset(overlap_start_global, entry),
                               length |-> overlap_len] >> \o rest
                      ELSE rest

resolve_chunk(entries, global_start, length) ==
    ResolveFrom(entries, PartitionPoint(entries, global_start) + 1,
                global_start, global_start + length)

\* ------------------------------------- GlobalStream, Chunker (reader.rs:105-194)
\* the concatenation of the content files, in order
GlobalStream(t, paths) == Concat([i \in 1..Len(paths) |-> t.data[t.entries[paths[i]].ino]])

\* StreamCDC: a deterministic, content-defined cut. A chunk is the whole rest of the
\* stream when that is at most min_size; otherwise it ends at the first byte at or
\* after min_size whose value is a cut point (the largest byte), or at max_size.
CutPoint == 2
CdcLength(stream, pos) ==
    LET remaining == Len(stream) - pos
        limit == Min(remaining, MaxSize)
        cuts == {n \in MinSize..limit : stream[pos + n] = CutPoint}
    IN  IF remaining <= MinSize THEN remaining
        ELSE IF cuts = {} THEN limit
        ELSE CHOOSE n \in cuts : \A m \in cuts : n <= m

\* ------------------------------------------------------------------ state
VARIABLES
    tree,                \* the source tree on disk
    blob,                \* the content of the blob file
    pc,                  \* "idle", "walk", "chunks", "restore", "restored", "failed"
    base_key,            \* backup: Option<String>
    dedup_cache,         \* backup: Option<HashMap<hash, ChunkStatus>>
    snapshot,            \* backup: the snapshot being built; restore: the one loaded
    inode_map,           \* backup: HashMap<FileId, relative path>
    walk_i,              \* backup: the next entry of the walk
    paths,               \* backup: the content path list
    registry,            \* Chunker.registry.entries
    stream_pos,          \* Chunker: global offset of the next chunk
    current_file_index,  \* backup: the monotonic cursor into snapshot.files
    results,             \* history: the backups that returned Ok(key)
    dest,                \* restore: destination tree, path -> Option<[kind, data]>
    restore_i,           \* restore: the next row of file_chunks (0-based)
    restore_key,         \* restore: Option<root key being restored>
    manifest,            \* restore: the snapshot loaded from the root key
    put_log,             \* history: every successful put, its key and its bytes
    put_calls,           \* history: storage.put calls of the current backup
    blob_len_0,          \* history: length of the blob file when the backup began
    emitted,             \* history: the chunks the current backup read, in order
    last_write,          \* history: the destination write of the last restored row
    lock,                \* BlobFileStorage.lock: RwLock<()>
    calls,               \* the put and get calls in progress, one per caller
    ncalls,              \* history: the number of put and get calls started
    query,               \* resolve_chunk called on its own: Option<[global_start, length]>
    mappings             \* resolve_chunk called on its own: the Vec<ChunkSource> returned

vars == << tree, blob, pc, base_key, dedup_cache, snapshot, inode_map, walk_i, paths,
           registry, stream_pos, current_file_index, results, dest, restore_i,
           restore_key, manifest, put_log, put_calls, blob_len_0, emitted, last_write,
           lock, calls, ncalls, query, mappings >>

backup_vars == << base_key, dedup_cache, snapshot, inode_map, walk_i, paths, registry,
                  stream_pos, current_file_index, put_calls, blob_len_0, emitted >>
restore_vars == << dest, restore_i, restore_key, manifest, last_write >>
storage_vars == << lock, calls, ncalls >>
resolve_vars == << query, mappings >>

\* the callers that share one BlobFileStorage
Procs == 1..NumProcs
\* RwLock::new(()): no writer (0), no readers
Unlocked == [writer |-> 0, readers |-> {}]
\* a caller that is in neither put nor get
IdleCall == [pc |-> "idle", data |-> << >>, key |-> << >>, offset |-> 0, written |-> 0]

NoWrite == [path |-> 0, pos |-> 0, file_offset |-> 0, data |-> << >>]

Init ==
    /\ tree \in Trees
    /\ blob = << >>
    /\ pc = "idle"
    /\ base_key = None
    /\ dedup_cache = None
    /\ snapshot = EmptySnapshot
    /\ inode_map = EmptyMap
    /\ walk_i = 1
    /\ paths = << >>
    /\ registry = << >>
    /\ stream_pos = 0
    /\ current_file_index = 0
    /\ results = << >>
    /\ dest = [p \in Paths |-> None]
    /\ restore_i = 0
    /\ restore_key = None
    /\ manifest = EmptySnapshot
    /\ put_log = << >>
    /\ put_calls = 0
    /\ blob_len_0 = 0
    /\ emitted = << >>
    /\ last_write = NoWrite
    /\ lock = Unlocked
    /\ calls = [p \in Procs |-> IdleCall]
    /\ ncalls = 0
    /\ query = None
    /\ mappings = << >>

\* ------------------------------------------------ backup (backup.rs:21-212)
Available(chunk) == [tag |-> "Available", chunk |-> chunk, index |-> 0]
\* faulty variant: the index is taken after the push to chunks[]
ReuseAfterPush(index) ==
    [tag |-> "Reuse", chunk |-> [hash |-> 0, location |-> << >>], index |-> index + 1]
Reuse(index) == [tag |-> "Reuse", chunk |-> [hash |-> 0, location |-> << >>], index |-> index]

\* snapshot.chunks.into_iter().map(|v| (v.hash, Available(v))).collect(): a later
\* chunk with the same hash replaces an earlier one
RECURSIVE CollectCache(_, _)
CollectCache(chunks, map) ==
    IF chunks = << >> THEN map
    ELSE CollectCache(Tail(chunks), MapInsert(map, Head(chunks).hash, Available(Head(chunks))))

BeginBackup(bk, cache) ==
    /\ pc' = "walk"
    /\ base_key' = bk
    /\ dedup_cache' = cache
    /\ snapshot' = EmptySnapshot
    /\ inode_map' = EmptyMap
    /\ walk_i' = 1
    /\ paths' = << >>
    /\ registry' = << >>
    /\ stream_pos' = 0
    /\ current_file_index' = 0
    /\ put_calls' = 0
    /\ blob_len_0' = Len(blob)
    /\ emitted' = << >>
    /\ UNCHANGED << tree, blob, results, put_log, restore_vars, storage_vars, resolve_vars >>

BackupStart ==
    /\ pc = "idle"
    /\ Len(results) < MaxBackups
    /\ BeginBackup(None, None)

\* base_key = the root key the previous backup returned
BackupStartBase ==
    /\ pc = "idle"
    /\ Len(results) < MaxBackups
    /\ \E r \in {Len(results)} \ {0} :
         LET base == Deserialize(StorageGet(blob, results[r].key))
         IN  /\ IsSome(base)
             /\ BeginBackup(Some(results[r].key),
                            Some(CollectCache(Unwrap(base).chunks, EmptyMap)))

walk_unchanged == << tree, blob, pc, base_key, dedup_cache, registry, stream_pos,
                     current_file_index, results, put_log, put_calls, blob_len_0,
                     emitted, restore_vars, storage_vars, resolve_vars >>

\* path.is_dir(): no entry
WalkDirectory ==
    /\ pc = "walk" /\ walk_i <= NumPaths
    /\ tree.entries[walk_i].kind = "dir"
    /\ walk_i' = walk_i + 1
    /\ UNCHANGED << snapshot, inode_map, paths, walk_unchanged >>

WalkSymlink ==
    /\ pc = "walk" /\ walk_i <= NumPaths
    /\ tree.entries[walk_i].kind = "symlink"
    /\ snapshot' = [snapshot EXCEPT !.file_symlink =
                      Append(@, [path |-> walk_i, source |-> LinkText, is_hard |-> FALSE])]
    /\ walk_i' = walk_i + 1
    /\ UNCHANGED << inode_map, paths, walk_unchanged >>

WalkHardLink ==
    /\ pc = "walk" /\ walk_i <= NumPaths
    /\ tree.entries[walk_i].kind = "file"
    /\ LET file_id == Unwrap(FileIdFromMetadata(tree, walk_i))
       IN  /\ ~IsNewFile(inode_map, file_id)
           /\ snapshot' = [snapshot EXCEPT !.file_symlink =
                             Append(@, [path |-> walk_i, source |-> inode_map[file_id],
                                        is_hard |-> TRUE])]
    /\ walk_i' = walk_i + 1
    /\ UNCHANGED << inode_map, paths, walk_unchanged >>

WalkNewFile ==
    /\ pc = "walk" /\ walk_i <= NumPaths
    /\ tree.entries[walk_i].kind = "file"
    /\ LET file_id == Unwrap(FileIdFromMetadata(tree, walk_i))
       IN  /\ IsNewFile(inode_map, file_id)
           /\ inode_map' = MapInsert(inode_map, file_id, walk_i)
    /\ snapshot' = [snapshot EXCEPT !.files = Append(@, [path |-> walk_i])]
    /\ paths' = Append(paths, walk_i)
    /\ walk_i' = walk_i + 1
    /\ UNCHANGED walk_unchanged

\* Chunker::new: the registry over the content paths, the CDC over their stream
ChunkerNew ==
    /\ pc = "walk" /\ walk_i > NumPaths
    /\ pc' = "chunks"
    /\ registry' = FileRegistryNew(tree, paths)
    /\ stream_pos' = 0
    /\ current_file_index' = 0
    /\ UNCHANGED << tree, blob, base_key, dedup_cache, snapshot, inode_map, walk_i, paths,
                    results, put_log, put_calls, blob_len_0, emitted, restore_vars,
                    storage_vars, resolve_vars >>

\* the chunk the chunker yields next: its bytes, and their sources from the registry
NextChunk ==
    LET stream == GlobalStream(tree, paths)
        length == CdcLength(stream, stream_pos)
    IN  [offset |-> stream_pos, length |-> length,
         data |-> SubSeq(stream, stream_pos + 1, stream_pos + length),
         sources |-> resolve_chunk(registry, stream_pos, length)]

ChunkerDone == stream_pos >= Len(GlobalStream(tree, paths))

\* faulty variant: the cache is never hit
CacheGetMiss(cache, hash) == None

\* dedup_cache.as_mut() and map.get(&hash)

CacheGet(cache, hash) ==
    IF IsSome(cache) /\ hash \in DOMAIN Unwrap(cache) THEN Some(Unwrap(cache)[hash])
    ELSE None

\* while current_file_index < files.len() && files[current_file_index].path != path
RECURSIVE AdvanceCursor(_, _, _)
AdvanceCursor(files, cfi, path) ==
    IF cfi < Len(files) /\ files[cfi + 1].path # path
    THEN AdvanceCursor(files, cfi + 1, path)
    ELSE cfi

\* faulty variant: chunk_offset is not advanced
NextChunkOffsetStuck(chunk_offset, source) == chunk_offset

\* chunk_offset += source.length
NextChunkOffset(chunk_offset, source) == chunk_offset + source.length

\* file_offset: source.offset
RowFileOffset(source) == source.offset

\* for source in chunk.sources { ... snapshot.file_chunks.push(..) }: the rows
\* pushed, the cursor afterwards, and ok = FALSE for "Chunk source path mismatch"
RECURSIVE PushFileChunks(_, _, _, _, _)
PushFileChunks(sources, files, cfi, chunk_offset, chunk_index) ==
    IF sources = << >> THEN [ok |-> TRUE, rows |-> << >>, cfi |-> cfi]
    ELSE LET source == Head(sources)
             at == AdvanceCursor(files, cfi, source.path)
         IN  IF at >= Len(files) THEN [ok |-> FALSE, rows |-> << >>, cfi |-> at]
             ELSE LET rest == PushFileChunks(Tail(sources), files, at,
                                             NextChunkOffset(chunk_offset, source),
                                             chunk_index)
                  IN  [ok |-> rest.ok,
                       rows |-> << [chunk_index |-> chunk_index, file_index |-> at,
                                    chunk_offset |-> chunk_offset,
                                    file_offset |-> RowFileOffset(source),
                                    length |-> source.length] >> \o rest.rows,
                       cfi |-> rest.cfi]

\* the rest of one iteration of the chunk loop, once chunk_index is chosen and
\* snapshot.chunks is new_chunks
FinishChunk(chunk, chunk_index, new_chunks) ==
    LET pushed == PushFileChunks(chunk.sources, snapshot.files, current_file_index,
                                 0, chunk_index)
    IN  /\ snapshot' = [snapshot EXCEPT !.chunks = new_chunks,
                                        !.file_chunks = @ \o pushed.rows]
        /\ current_file_index' = pushed.cfi
        /\ stream_pos' = chunk.offset + chunk.length
        /\ pc' = IF pushed.ok THEN "chunks" ELSE "failed"
        /\ emitted' = Append(emitted, [hash |-> Blake3(chunk.data),
                                       chunk_index |-> chunk_index,
                                       first_row |-> Len(snapshot.file_chunks),
                                       rows |-> Len(pushed.rows)])
        /\ UNCHANGED << tree, base_key, inode_map, walk_i, paths, registry, results,
                        blob_len_0, restore_vars, storage_vars, resolve_vars >>

\* Some(ChunkStatus::Available(chunk)): the base entry joins chunks[], no upload
ChunkAvailable ==
    /\ pc = "chunks" /\ ~ChunkerDone
    /\ LET chunk == NextChunk
           hash == Blake3(chunk.data)
           got == CacheGet(dedup_cache, hash)
       IN  /\ IsSome(got) /\ Unwrap(got).tag = "Available"
           /\ LET index == Len(snapshot.chunks)
              IN  /\ dedup_cache' = Some(MapInsert(Unwrap(dedup_cache), hash, Reuse(index)))
                  /\ FinishChunk(chunk, index, Append(snapshot.chunks, Unwrap(got).chunk))
    /\ UNCHANGED << blob, put_log, put_calls >>

\* Some(ChunkStatus::Reuse(index))
ChunkReuse ==
    /\ pc = "chunks" /\ ~ChunkerDone
    /\ LET chunk == NextChunk
           got == CacheGet(dedup_cache, Blake3(chunk.data))
       IN  /\ IsSome(got) /\ Unwrap(got).tag = "Reuse"
           /\ FinishChunk(chunk, Unwrap(got).index, snapshot.chunks)
    /\ UNCHANGED << blob, put_log, put_calls, dedup_cache >>

\* no cache, or no entry for the hash: storage.put, then a new chunks[] entry
ChunkMiss ==
    /\ pc = "chunks" /\ ~ChunkerDone
    /\ LET chunk == NextChunk
           hash == Blake3(chunk.data)
           put == StoragePut(blob, chunk.data)
       IN  /\ CacheGet(dedup_cache, hash) = None
           /\ blob' = put.file
           /\ put_log' = Append(put_log, [key |-> put.key, data |-> chunk.data])
           /\ put_calls' = put_calls + 1
           /\ FinishChunk(chunk, Len(snapshot.chunks),
                          Append(snapshot.chunks, [hash |-> hash, location |-> put.key]))
    /\ UNCHANGED dedup_cache

\* bincode::serialize(&snapshot), storage.put, Ok(key)
BackupFinish ==
    /\ pc = "chunks" /\ ChunkerDone
    /\ LET buffer == Serialize(snapshot)
           put == StoragePut(blob, buffer)
       IN  /\ blob' = put.file
           /\ put_log' = Append(put_log, [key |-> put.key, data |-> buffer])
           /\ results' = Append(results, [key |-> put.key, tree |-> tree,
                                          snapshot |-> snapshot, base_key |-> base_key,
                                          put_calls |-> put_calls + 1,
                                          blob_len_0 |-> blob_len_0,
                                          blob_len_1 |-> Len(put.file),
                                          emitted |-> emitted])
    /\ put_calls' = put_calls + 1
    /\ pc' = "idle"
    /\ UNCHANGED << tree, base_key, dedup_cache, snapshot, inode_map, walk_i, paths,
                    registry, stream_pos, current_file_index, blob_len_0, emitted,
                    restore_vars, storage_vars, resolve_vars >>

\* between two backups one file of the tree grows by one byte (once in a run)
AppendByte ==
    /\ pc = "idle"
    /\ Len(results) >= 1 /\ Len(results) < MaxBackups
    /\ \A r \in 1..Len(results) : results[r].tree = tree
    /\ \E i \in UsedInodes(tree), b \in Bytes :
         /\ TotalLen(tree) < MaxTotalLen
         /\ tree' = [tree EXCEPT !.data[i] = Append(@, b)]
    /\ UNCHANGED << blob, pc, results, put_log, backup_vars, restore_vars,
                    storage_vars, resolve_vars >>

\* ------------------------------------------------ restore (restore.rs:14-83)
\* a write of data at byte position pos of a file opened with write + create and
\* no truncate: the file is created when missing, bytes outside the written range
\* are kept, and a gap between the old end and pos reads as HoleByte
WriteAt(file, pos, data) ==
    LET old == IF IsSome(file) THEN Unwrap(file).data ELSE << >>
        new_len == IF data = << >> THEN Len(old) ELSE Max(Len(old), pos + Len(data))
    IN  Some([kind |-> "file",
              data |-> [i \in 1..new_len |->
                          IF i > pos /\ i <= pos + Len(data) THEN data[i - pos]
                          ELSE IF i <= Len(old) THEN old[i] ELSE HoleByte]])

\* file.seek(io::SeekFrom::Start(file_chunk.file_index.into()))
DestSeek(file_chunk) == file_chunk.file_index

\* storage.get(&chunk.location), seek(Start(chunk_offset)), SliceAsyncReader of
\* limit length, tokio::io::copy: the bytes that reach the destination
ChunkSlice(file, location, chunk_offset, length) ==
    LET bytes == StorageGet(file, location)
    IN  SubSeq(bytes, chunk_offset + 1, Min(Len(bytes), chunk_offset + length))

\* restore of the root key the last backup returned, into an empty destination
RestoreStart ==
    /\ pc = "idle"
    /\ \E r \in {Len(results)} \ {0} :
         LET loaded == Deserialize(StorageGet(blob, results[r].key))
         IN  /\ restore_key' = Some(results[r].key)
             /\ IF IsSome(loaded)
                THEN manifest' = Unwrap(loaded) /\ pc' = "restore"
                ELSE manifest' = EmptySnapshot /\ pc' = "failed"
    /\ dest' = [p \in Paths |-> None]
    /\ restore_i' = 0
    /\ last_write' = NoWrite
    /\ UNCHANGED << tree, blob, results, put_log, backup_vars, storage_vars, resolve_vars >>

RestoreRow ==
    /\ pc = "restore" /\ restore_i < Len(manifest.file_chunks)
    /\ LET file_chunk == manifest.file_chunks[restore_i + 1]
           found == /\ file_chunk.file_index < Len(manifest.files)
                    /\ file_chunk.chunk_index < Len(manifest.chunks)
       IN  IF ~found
           THEN pc' = "failed" /\ UNCHANGED << dest, last_write >>
           ELSE LET file == manifest.files[file_chunk.file_index + 1]
                    chunk == manifest.chunks[file_chunk.chunk_index + 1]
                    pos == DestSeek(file_chunk)
                    data == ChunkSlice(blob, chunk.location, file_chunk.chunk_offset,
                                       file_chunk.length)
                IN  /\ dest' = [dest EXCEPT ![file.path] = WriteAt(@, pos, data)]
                    /\ last_write' = [path |-> file.path, pos |-> pos,
                                      file_offset |-> file_chunk.file_offset,
                                      data |-> data]
                    /\ pc' = "restore"
    /\ restore_i' = restore_i + 1
    /\ UNCHANGED << tree, blob, results, put_log, restore_key, manifest, backup_vars,
                    storage_vars, resolve_vars >>

\* the loop over file_chunks is over: Ok(())
RestoreFinish ==
    /\ pc = "restore" /\ restore_i >= Len(manifest.file_chunks)
    /\ pc' = "restored"
    /\ UNCHANGED << tree, blob, results, put_log, backup_vars, restore_vars,
                    storage_vars, resolve_vars >>

Next ==
    \/ BackupStart
    \/ BackupStartBase
    \/ WalkDirectory
    \/ WalkSymlink
    \/ WalkHardLink
    \/ WalkNewFile
    \/ ChunkerNew
    \/ ChunkAvailable
    \/ ChunkReuse
    \/ ChunkMiss
    \/ BackupFinish
    \/ AppendByte
    \/ RestoreStart
    \/ RestoreRow
    \/ RestoreFinish

Spec == Init /\ [][Next]_vars

\* The same program on trees with one inode of up to MaxLongLen bytes, reached by a
\* regular file at the first path and by nothing, a directory, a symbolic link or a
\* hard link at the others: streams long enough for a chunk to recur after another.
LongTrees ==
    {t \in [entries : [Paths -> {DirEntry, SymlinkEntry, FileEntry(1)}],
            data : [Inodes -> SeqsUpTo(Bytes, MaxLongLen)]] :
        /\ t.entries[1] = FileEntry(1)
        /\ \A i \in Inodes \ {1} : t.data[i] = << >>}

LongInit ==
    /\ tree \in LongTrees
    /\ blob = << >>
    /\ pc = "idle"
    /\ base_key = None
    /\ dedup_cache = None
    /\ snapshot = EmptySnapshot
    /\ inode_map = EmptyMap
    /\ walk_i = 1
    /\ paths = << >>
    /\ registry = << >>
    /\ stream_pos = 0
    /\ current_file_index = 0
    /\ results = << >>
    /\ dest = [p \in Paths |-> None]
    /\ restore_i = 0
    /\ restore_key = None
    /\ manifest = EmptySnapshot
    /\ put_log = << >>
    /\ put_calls = 0
    /\ blob_len_0 = 0
    /\ emitted = << >>
    /\ last_write = NoWrite
    /\ lock = Unlocked
    /\ calls = [p \in Procs |-> IdleCall]
    /\ ncalls = 0
    /\ query = None
    /\ mappings = << >>

LongSpec == LongInit /\ [][Next]_vars

\* ------------------------------------------ restore from a damaged blob file
\* Between a backup and the restore the blob file is damaged: one field of one
\* file_chunks row of the last snapshot stored reads back one greater than it was
\* written. The file is intact as long as it is the concatenation of what the puts
\* appended.
Intact == blob = Concat([i \in 1..Len(put_log) |-> put_log[i].data])

\* the position in the blob file of the length prefix of file_chunks of backup r
RowsAt(r) ==
    KeyDecode(results[r].key).offset
        + Len(SerVec(results[r].snapshot.files, "file"))
        + Len(SerVec(results[r].snapshot.chunks, "chunk")) + 1

CorruptBlob ==
    /\ pc = "idle" /\ Len(results) >= 1 /\ Intact
    /\ \E i \in 1..(5 * Len(results[Len(results)].snapshot.file_chunks)) :
         blob' = [blob EXCEPT ![RowsAt(Len(results)) + i] = @ + 1]
    /\ UNCHANGED << tree, pc, results, put_log, backup_vars, restore_vars,
                    storage_vars, resolve_vars >>

DamageNext ==
    \/ Next
    \/ CorruptBlob

DamageSpec == Init /\ [][DamageNext]_vars

\* --------------------------------- resolve_chunk on its own (reader.rs:69-102)
\* The registry is built as backup builds it, from the content paths of the walk;
\* resolve_chunk is then called for any range inside the stream.
ResolveChunk ==
    /\ pc = "chunks"
    /\ \E global_start \in 0..Len(GlobalStream(tree, paths)) :
         \E length \in 0..(Len(GlobalStream(tree, paths)) - global_start) :
             /\ query' = Some([global_start |-> global_start, length |-> length])
             /\ mappings' = resolve_chunk(registry, global_start, length)
    /\ UNCHANGED << tree, blob, pc, results, put_log, backup_vars, restore_vars,
                    storage_vars >>

ResolveNext ==
    \/ BackupStart
    \/ WalkDirectory
    \/ WalkSymlink
    \/ WalkHardLink
    \/ WalkNewFile
    \/ ChunkerNew
    \/ ResolveChunk

ResolveSpec == Init /\ [][ResolveNext]_vars

\* ------------------------- concurrent callers of one BlobFileStorage (blob.rs:56-96)
\* Each caller runs put or get as the code does, one step per await point; the
\* backup and restore commands are at rest.
program_vars == << tree, pc, results, backup_vars, restore_vars, resolve_vars >>

\* faulty variant: the write guard is granted whatever the state of the lock
CanWriteAlways(l) == TRUE

\* self.lock.write().await is granted: no writer and no reader holds the lock
CanWrite(l) == l.writer = 0 /\ l.readers = {}

\* self.lock.read().await is granted: no writer holds the lock
CanRead(l) == l.writer = 0

\* the bytes a caller hands to put as its reader: n bytes that name the caller
PutData(p, n) == [i \in 1..n |-> p]

\* put is called with a reader over data
PutCall(p) ==
    /\ calls[p].pc = "idle" /\ ncalls < MaxCalls
    /\ \E n \in 1..MaxPutLen :
         calls' = [calls EXCEPT ![p] = [IdleCall EXCEPT !.pc = "put_wait",
                                                         !.data = PutData(p, n)]]
    /\ ncalls' = ncalls + 1
    /\ UNCHANGED << blob, put_log, lock, program_vars >>

\* let _guard = self.lock.write().await
PutLockWrite(p) ==
    /\ calls[p].pc = "put_wait" /\ CanWrite(lock)
    /\ lock' = [lock EXCEPT !.writer = p]
    /\ calls' = [calls EXCEPT ![p].pc = "put_open"]
    /\ UNCHANGED << blob, put_log, ncalls, program_vars >>

\* OpenOptions::new().create(true).append(true).open(): the file exists already
PutOpen(p) ==
    /\ calls[p].pc = "put_open"
    /\ calls' = [calls EXCEPT ![p].pc = "put_len"]
    /\ UNCHANGED << blob, put_log, lock, ncalls, program_vars >>

\* let offset = file.metadata().await?.len()
PutMetadataLen(p) ==
    /\ calls[p].pc = "put_len"
    /\ calls' = [calls EXCEPT ![p].pc = "put_copy", ![p].offset = Len(blob)]
    /\ UNCHANGED << blob, put_log, lock, ncalls, program_vars >>

\* tokio::io::copy, one write: in append mode the bytes go to the end of the file
PutCopy(p) ==
    /\ calls[p].pc = "put_copy" /\ calls[p].written < Len(calls[p].data)
    /\ blob' = Append(blob, calls[p].data[calls[p].written + 1])
    /\ calls' = [calls EXCEPT ![p].written = calls[p].written + 1]
    /\ UNCHANGED << put_log, lock, ncalls, program_vars >>

\* copy returns the bytes copied; the key is built, the guard dropped, Ok(key)
PutReturn(p) ==
    /\ calls[p].pc = "put_copy" /\ calls[p].written = Len(calls[p].data)
    /\ put_log' = Append(put_log,
                         [key |-> KeyEncode([offset |-> calls[p].offset,
                                             length |-> calls[p].written]),
                          data |-> calls[p].data])
    /\ lock' = [lock EXCEPT !.writer = IF lock.writer = p THEN 0 ELSE lock.writer]
    /\ calls' = [calls EXCEPT ![p] = IdleCall]
    /\ UNCHANGED << blob, ncalls, program_vars >>

\* get is called with a key an earlier put returned; serde_json::from_str parses it
GetCall(p) ==
    /\ calls[p].pc = "idle" /\ ncalls < MaxCalls
    /\ \E i \in 1..Len(put_log) :
         calls' = [calls EXCEPT ![p] = [IdleCall EXCEPT !.pc = "get_wait",
                                                         !.key = put_log[i].key]]
    /\ ncalls' = ncalls + 1
    /\ UNCHANGED << blob, put_log, lock, program_vars >>

\* let _guard = self.lock.read().await
GetLockRead(p) ==
    /\ calls[p].pc = "get_wait" /\ CanRead(lock)
    /\ lock' = [lock EXCEPT !.readers = lock.readers \cup {p}]
    /\ calls' = [calls EXCEPT ![p].pc = "get_open"]
    /\ UNCHANGED << blob, put_log, ncalls, program_vars >>

\* fs::File::open(&self.file_path)
GetOpen(p) ==
    /\ calls[p].pc = "get_open"
    /\ calls' = [calls EXCEPT ![p].pc = "get_seek"]
    /\ UNCHANGED << blob, put_log, lock, ncalls, program_vars >>

\* file.seek(SeekFrom::Start(entry.offset)), file.take(entry.length), the guard is
\* dropped and the reader returned
GetSeek(p) ==
    /\ calls[p].pc = "get_seek"
    /\ lock' = [lock EXCEPT !.readers = lock.readers \ {p}]
    /\ calls' = [calls EXCEPT ![p] = IdleCall]
    /\ UNCHANGED << blob, put_log, ncalls, program_vars >>

StorageInit ==
    /\ Init
    /\ \A p \in Paths : tree.entries[p] = DirEntry

StorageNext ==
    \E p \in Procs :
        \/ PutCall(p)
        \/ PutLockWrite(p)
        \/ PutOpen(p)
        \/ PutMetadataLen(p)
        \/ PutCopy(p)
        \/ PutReturn(p)
        \/ GetCall(p)
        \/ GetLockRead(p)
        \/ GetOpen(p)
        \/ GetSeek(p)

StorageSpec == StorageInit /\ [][StorageNext]_vars

\* ================================================================ properties

Produced == 1..Len(results)
\* no operation is in progress: the last backup, if any, has returned its key
Returned == pc = "idle"
Rows(snap) == 1..Len(snap.file_chunks)
\* the bytes a chunk entry addresses in the blob file
ChunkBytes(c) == StorageGet(blob, c.location)
\* the backup whose root key is the base key of backup r
BasesOf(r) == {b \in Produced : results[r].base_key = Some(results[b].key)}
\* the sum of the lengths of rows from..to (1-based, inclusive) of a snapshot
RowLengths(snap, from, to) ==
    SumSeq([k \in 1..(to - from + 1) |-> snap.file_chunks[from + k - 1].length])

\* what a faithful restore leaves at path p for source tree t (a hard link is a
\* regular file with the content of its inode)
ExpectedEntry(t, p) ==
    CASE t.entries[p].kind = "file" ->
           Some([kind |-> "file", data |-> t.data[t.entries[p].ino]])
      [] t.entries[p].kind = "symlink" ->
           Some([kind |-> "symlink", data |-> << LinkText >>])
      [] OTHER -> None

\* C1: round trip. After restore of the root key of backup(T) into an empty
\* destination has returned Ok, the destination holds exactly the paths of T, each
\* regular file (hard links included) with the bytes of its source and each
\* symbolic link as a link.
C1_RoundTrip ==
    pc = "restored" =>
        \A r \in Produced :
            restore_key = Some(results[r].key) =>
                \A p \in Paths : dest[p] = ExpectedEntry(results[r].tree, p)

\* C2: dedup law. Once backup r has returned: when it ran with base_key = the root
\* key of a backup of the same, unchanged tree, it called storage.put exactly once
\* (the snapshot), never for a chunk, the
\* blob file grew by exactly the serialized snapshot, and every chunks[] entry of
\* the new snapshot has the location of a base entry with the same hash.
C2_DedupLaw ==
    Returned =>
        \A r \in Produced : \A b \in BasesOf(r) :
            results[b].tree = results[r].tree =>
                LET new == results[r].snapshot
                    base == results[b].snapshot
                IN  /\ results[r].put_calls = 1
                    /\ results[r].blob_len_1 - results[r].blob_len_0
                         = Len(Serialize(new))
                    /\ \A i \in 1..Len(new.chunks) :
                           \E j \in 1..Len(base.chunks) :
                               /\ base.chunks[j].hash = new.chunks[i].hash
                               /\ base.chunks[j].location = new.chunks[i].location

C2_Witness ==
    \E r \in Produced : \E b \in BasesOf(r) :
        /\ results[b].tree = results[r].tree
        /\ Len(results[r].snapshot.chunks) >= 2
        /\ Len(results[r].emitted) >= 2

\* C3: partition law. In every snapshot a backup has returned, the rows of each file
\* index f lie inside [0, size(f)), start at 0 or where another row of f ends, do
\* not overlap, and their lengths sum to size(f).
C3_Partition ==
    Returned => \A r \in Produced :
        LET snap == results[r].snapshot
            rows == snap.file_chunks
        IN  \A f \in 0..(Len(snap.files) - 1) :
                LET size == FileSize(results[r].tree, snap.files[f + 1].path)
                    R == {i \in Rows(snap) : rows[i].file_index = f}
                IN  /\ SumSeq([i \in Rows(snap) |->
                                 IF i \in R THEN rows[i].length ELSE 0]) = size
                    /\ \A i \in R :
                         /\ rows[i].file_offset + rows[i].length <= size
                         /\ \/ rows[i].file_offset = 0
                            \/ \E j \in R : rows[j].file_offset + rows[j].length
                                              = rows[i].file_offset
                    /\ \A i, j \in R :
                         i # j => \/ rows[i].file_offset + rows[i].length
                                       <= rows[j].file_offset
                                  \/ rows[j].file_offset + rows[j].length
                                       <= rows[i].file_offset

\* a backup with a base key that had a cache hit and a fresh put, a chunk spanning
\* two files, and a file covered by two rows
C3_Witness ==
    \E r \in Produced :
        LET snap == results[r].snapshot
        IN  /\ results[r].base_key # None
            /\ results[r].put_calls >= 2
            /\ results[r].put_calls - 1 < Len(results[r].emitted)
            /\ \E e \in 1..Len(results[r].emitted) : results[r].emitted[e].rows >= 2
            /\ \E i, j \in Rows(snap) :
                 /\ i # j
                 /\ snap.file_chunks[i].file_index = snap.file_chunks[j].file_index

\* C4: dedup invariant. No two entries of chunks[] of a produced snapshot have the
\* same hash.
C4_UniqueHashes ==
    \A r \in Produced :
        LET chunks == results[r].snapshot.chunks
        IN  \A i, j \in 1..Len(chunks) : i # j => chunks[i].hash # chunks[j].hash

\* C5: FileChunk bounds. Every row of a snapshot a backup has returned has file_index <
\* len(files), chunk_index < len(chunks), length > 0 and chunk_offset + length <=
\* the size of its chunk; the rows one emitted chunk pushed carry its chunk index
\* and chunk offsets 0, l1, l1 + l2, ...
C5_RowBounds ==
    Returned => \A r \in Produced :
        LET snap == results[r].snapshot
            rows == snap.file_chunks
        IN  /\ \A i \in Rows(snap) :
                 /\ rows[i].file_index < Len(snap.files)
                 /\ rows[i].chunk_index < Len(snap.chunks)
                 /\ rows[i].length > 0
                 /\ rows[i].chunk_offset >= 0
                 /\ rows[i].chunk_offset + rows[i].length
                      <= Len(ChunkBytes(snap.chunks[rows[i].chunk_index + 1]))
            /\ \A e \in 1..Len(results[r].emitted) :
                 LET em == results[r].emitted[e]
                 IN  \A k \in 1..em.rows :
                         /\ rows[em.first_row + k].chunk_index = em.chunk_index
                         /\ rows[em.first_row + k].chunk_offset
                              = RowLengths(snap, em.first_row + 1, em.first_row + k - 1)

\* a produced snapshot in which one emitted chunk pushed rows for two files
C5_Witness ==
    \E r \in Produced : \E e \in 1..Len(results[r].emitted) :
        /\ results[r].emitted[e].rows >= 2
        /\ Len(results[r].snapshot.file_chunks) >= 3

\* C6: restore write position. Every row is written at byte offset file_offset of
\* its destination file.
C6_WriteAtFileOffset ==
    (pc \in {"restore", "restored"} /\ last_write.path # 0) =>
        last_write.pos = last_write.file_offset

\* C7: link materialization. When restore has returned Ok, every entry of
\* file_symlink[] exists in the destination.
C7_LinksCreated ==
    pc = "restored" =>
        \A l \in 1..Len(manifest.file_symlink) :
            IsSome(dest[manifest.file_symlink[l].path])

\* C8: empty files. A zero-length source file is in files[] with no rows, and when
\* restore has returned Ok every path of files[] exists in the destination, a
\* zero-length file where the source was zero-length.
C8_FilesExist ==
    pc = "restored" =>
        \A r \in Produced :
            restore_key = Some(results[r].key) =>
                \A f \in 1..Len(manifest.files) :
                    LET path == manifest.files[f].path
                    IN  /\ IsSome(dest[path])
                        /\ FileSize(results[r].tree, path) = 0 =>
                             /\ \A i \in Rows(manifest) :
                                    manifest.file_chunks[i].file_index # f - 1
                             /\ Unwrap(dest[path]).data = << >>

\* C9: hard-link collapsing. Of the regular files walked so far, those that are the
\* first of their (device, inode) are files[] and the content path list, in walk
\* order; the others are exactly the is_hard entries of file_symlink[], each with
\* the path of the first file of its inode as target. Hence every is_hard target is
\* the path of an earlier files[] entry, files[] paths are unique, and no
\* file_symlink[] path is a files[] path.
IsFirstOfInode(t, p) ==
    /\ t.entries[p].kind = "file"
    /\ \A q \in 1..(p - 1) : t.entries[q] # t.entries[p]

RECURSIVE FirstFilesBelow(_, _)
FirstFilesBelow(t, n) ==
    IF n <= 1 THEN << >>
    ELSE FirstFilesBelow(t, n - 1)
           \o (IF IsFirstOfInode(t, n - 1) THEN << n - 1 >> ELSE << >>)

RECURSIVE LaterFilesBelow(_, _)
LaterFilesBelow(t, n) ==
    IF n <= 1 THEN << >>
    ELSE LaterFilesBelow(t, n - 1)
           \o (IF t.entries[n - 1].kind = "file" /\ ~IsFirstOfInode(t, n - 1)
               THEN << [path |-> n - 1, source |-> FirstUse(t, t.entries[n - 1].ino),
                        is_hard |-> TRUE] >>
               ELSE << >>)

IsHard(l) == l.is_hard

C9_HardLinks ==
    LET files == snapshot.files
        links == snapshot.file_symlink
        firsts == FirstFilesBelow(tree, walk_i)
    IN  /\ files = [i \in 1..Len(firsts) |-> [path |-> firsts[i]]]
        /\ paths = firsts
        /\ SelectSeq(links, IsHard) = LaterFilesBelow(tree, walk_i)
        /\ \A l \in 1..Len(links) :
             links[l].is_hard =>
                 \E f \in 1..Len(files) :
                     /\ files[f].path = links[l].source
                     /\ files[f].path < links[l].path
        /\ \A f, g \in 1..Len(files) : f # g => files[f].path # files[g].path
        /\ \A l \in 1..Len(links) : \A f \in 1..Len(files) :
             links[l].path # files[f].path

\* the walk is over and met a hard link after the first file of its inode
C9_Witness ==
    /\ pc = "chunks"
    /\ \E l \in 1..Len(snapshot.file_symlink) : snapshot.file_symlink[l].is_hard
    /\ Len(snapshot.files) >= 1

\* C10: append-only round trip. After any sequence of successful puts, get(k) of
\* every key returned so far yields exactly the bytes given to its put, and the
\* byte ranges of keys returned by different puts do not overlap.
C10_PutGet ==
    LET entry == [i \in 1..Len(put_log) |-> KeyDecode(put_log[i].key)]
    IN  /\ \A i \in 1..Len(put_log) :
             StorageGet(blob, put_log[i].key) = put_log[i].data
        /\ \A i, j \in 1..Len(put_log) :
             i < j => entry[i].offset + entry[i].length <= entry[j].offset

\* four puts have returned, one of them at an offset of 10 or more
C10_Witness ==
    /\ Len(put_log) >= 4
    /\ \E i \in 1..Len(put_log) : KeyDecode(put_log[i].key).offset >= 10

\* C11: mutual exclusion of the blob store. Of the calls in progress at most one
\* put holds the file between taking the write guard and its return, no get is
\* between taking the read guard and its return while a put is; the keys the puts
\* have returned address disjoint ranges, each holding the bytes of its own put.
InPutSection(p) == calls[p].pc \in {"put_open", "put_len", "put_copy"}
InGetSection(p) == calls[p].pc \in {"get_open", "get_seek"}

C11_MutualExclusion ==
    /\ \A p, q \in Procs : (InPutSection(p) /\ InPutSection(q)) => p = q
    /\ \A p, q \in Procs : ~(InPutSection(p) /\ InGetSection(q))
    /\ \A i \in 1..Len(put_log) :
         LET e == KeyDecode(put_log[i].key)
         IN  /\ e.length = Len(put_log[i].data)
             /\ SubSeq(blob, e.offset + 1, e.offset + e.length) = put_log[i].data
             /\ \A j \in 1..Len(put_log) :
                  i # j => LET f == KeyDecode(put_log[j].key)
                           IN  \/ e.offset + e.length <= f.offset
                               \/ f.offset + f.length <= e.offset

\* a put of one caller has returned; a put of another caller is in the middle of
\* its copy while the first caller waits for the lock with its next put
C11_Witness ==
    \E p, q \in Procs :
        /\ p # q
        /\ calls[p].pc = "put_copy"
        /\ calls[p].written >= 1 /\ calls[p].written < Len(calls[p].data)
        /\ calls[q].pc = "put_wait"
        /\ \E i \in 1..Len(put_log) : put_log[i].data[1] = q

\* C12: manifest ordering. In every snapshot a backup has returned the rows of
\* file_chunks[] have non-decreasing chunk_index, the rows of one emitted chunk are
\* in source order (ascending file index), and chunks[] is in emission order: the
\* first emission of an earlier entry precedes the first emission of a later one.
FirstEmission(r, index) ==
    CHOOSE e \in 1..Len(results[r].emitted) :
        /\ results[r].emitted[e].chunk_index = index
        /\ \A d \in 1..(e - 1) : results[r].emitted[d].chunk_index # index

C12_RowOrder ==
    \A r \in Produced :
        LET snap == results[r].snapshot
            rows == snap.file_chunks
        IN  /\ \A i \in 1..(Len(rows) - 1) :
                 rows[i].chunk_index <= rows[i + 1].chunk_index
            /\ \A e \in 1..Len(results[r].emitted) :
                 LET em == results[r].emitted[e]
                 IN  \A k \in 1..(em.rows - 1) :
                         rows[em.first_row + k].file_index
                             < rows[em.first_row + k + 1].file_index
            /\ \A i, j \in 0..(Len(snap.chunks) - 1) :
                 i < j => FirstEmission(r, i) < FirstEmission(r, j)

\* C13: FileRegistry.resolve. For a range inside the stream, resolve_chunk returns,
\* in file order, exactly the files whose global range shares a byte with it, each
\* with the local offset of the start of the overlap and its size, which is
\* positive; the lengths sum to the length asked for and the segments, read from
\* the files and concatenated, are that range of the concatenated stream.
OverlapStart(e, q) == Max(q.global_start, e.global_offset)
OverlapEnd(e, q) == Min(q.global_start + q.length, e.global_offset + e.length)
Segment(t, m) == SubSeq(t.data[t.entries[m.path].ino], m.offset + 1, m.offset + m.length)

C13_Resolve ==
    IsSome(query) =>
        LET q == Unwrap(query)
            Overlaps(k) == OverlapStart(registry[k], q) < OverlapEnd(registry[k], q)
            hit == SelectSeq([k \in 1..Len(registry) |-> k], Overlaps)
        IN  /\ mappings =
                 [n \in 1..Len(hit) |->
                    [path |-> registry[hit[n]].path,
                     offset |-> OverlapStart(registry[hit[n]], q)
                                  - registry[hit[n]].global_offset,
                     length |-> OverlapEnd(registry[hit[n]], q)
                                  - OverlapStart(registry[hit[n]], q)]]
            /\ \A n \in 1..Len(mappings) : mappings[n].length > 0
            /\ SumSeq([n \in 1..Len(mappings) |-> mappings[n].length]) = q.length
            /\ Concat([n \in 1..Len(mappings) |-> Segment(tree, mappings[n])])
                 = SubSeq(GlobalStream(tree, paths), q.global_start + 1,
                          q.global_start + q.length)

\* a range that starts inside one file and ends in the next
C13_Witness ==
    /\ IsSome(query)
    /\ Len(mappings) = 2
    /\ mappings[1].offset > 0
    /\ Len(registry) = 2

\* C14: exact copy or failure. Whenever restore has gone past a row without
\* failing, it wrote exactly the length of that row to the destination: never
\* more, and never fewer because the chunk ran short.
C14_ExactCopy ==
    (pc \in {"restore", "restored"} /\ restore_i >= 1) =>
        Len(last_write.data) = manifest.file_chunks[restore_i].length

\* C15: dedup-cache state machine. During the chunk loop of a backup with a base
\* key: a slot marked Reuse(i) has chunks[i] of the new snapshot equal to a base
\* entry with the hash of the slot; no base entry is in the new chunks[] twice;
\* every chunk read so far has its chunk_index, carried by its rows, at an entry of
\* chunks[] whose hash is the hash of its bytes; and in every step the set of slots
\* stays the same, a Reuse slot is left as it is, and an Available slot is left as
\* it is or becomes Reuse.
InBaseLoop == pc = "chunks" /\ IsSome(dedup_cache) /\ IsSome(base_key)
BaseChunks ==
    UNION {{results[b].snapshot.chunks[j] : j \in 1..Len(results[b].snapshot.chunks)} :
             b \in {c \in Produced : base_key = Some(results[c].key)}}

CacheState ==
    InBaseLoop =>
        LET cache == Unwrap(dedup_cache)
            chunks == snapshot.chunks
        IN  /\ \A h \in DOMAIN cache :
                 cache[h].tag = "Reuse" =>
                     /\ cache[h].index < Len(chunks)
                     /\ chunks[cache[h].index + 1].hash = h
                     /\ chunks[cache[h].index + 1] \in BaseChunks
            /\ \A i, j \in 1..Len(chunks) :
                 (i # j /\ chunks[i] \in BaseChunks) => chunks[i] # chunks[j]
            /\ \A e \in 1..Len(emitted) :
                 /\ emitted[e].chunk_index < Len(chunks)
                 /\ chunks[emitted[e].chunk_index + 1].hash = emitted[e].hash
                 /\ \A k \in 1..emitted[e].rows :
                      snapshot.file_chunks[emitted[e].first_row + k].chunk_index
                          = emitted[e].chunk_index

CacheStep ==
    InBaseLoop =>
        /\ IsSome(dedup_cache')
        /\ DOMAIN Unwrap(dedup_cache') = DOMAIN Unwrap(dedup_cache)
        /\ \A h \in DOMAIN Unwrap(dedup_cache) :
             \/ Unwrap(dedup_cache')[h] = Unwrap(dedup_cache)[h]
             \/ /\ Unwrap(dedup_cache)[h].tag = "Available"
                /\ Unwrap(dedup_cache')[h].tag = "Reuse"

C15_CacheMachine == [](CacheState) /\ [][CacheStep]_vars

\* in the chunk loop of a backup with a base key one slot is Reuse and another still
\* Available, and a chunk has been read a second time, hitting the Reuse slot
C15_Witness ==
    /\ InBaseLoop
    /\ \E h, g \in DOMAIN Unwrap(dedup_cache) :
         /\ Unwrap(dedup_cache)[h].tag = "Reuse"
         /\ Unwrap(dedup_cache)[g].tag = "Available"
    /\ \E d, e \in 1..Len(emitted) : d < e /\ emitted[d].hash = emitted[e].hash

====
